---- MODULE Spec2Model ----
(***************************************************************************)
(* Model of the cart, checkout, password-reset and permission resolvers   *)
(* of src/resolvers/Mutation.js.                                           *)
(* Every request runs on its own worker; a resolver is split into one      *)
(* action per awaited call (database read, database write, gateway call,   *)
(* mail), so that requests interleave exactly at the points where the      *)
(* JavaScript event loop can switch between them.                          *)
(***************************************************************************)
EXTENDS Integers, Sequences, FiniteSets, TLC

(* ---- bounds ---- *)
NProcs == 2
MaxOps == 3
MaxTicks == 5

(* ---- test data ---- *)
Procs == 1..NProcs
Users == {"u1", "u2"}
NoUser == "none"
Items == {"i1", "i2"}
NoItem == "none"
Price == ("i1" :> 2) @@ ("i2" :> 3)

NoLine == [id |-> 0, user |-> NoUser, item |-> NoItem, quantity |-> 0]
NoCharge == [id |-> 0, amount |-> 0]
NoReq == [op |-> "none", user |-> NoUser, item |-> NoItem, line |-> 0]

VARIABLES
    cartItems,   \* CartItem table: set of [id, user, item, quantity]
    orders,      \* Order table: set of [id, user, total, charge, items]
    charges,     \* charges the gateway has made: set of [id, amount, lines]
    nextId,      \* next database id
    nextCharge,  \* next gateway charge id
    opsStarted,  \* number of requests started so far
    added,       \* added[u][i]: addToCart calls for (u,i) that returned a row
    pc,          \* position of each request
    req,         \* the request a worker serves: [op, user, item, line]
    existing,    \* addToCart: existingCartItem
    cart,        \* createOrder: user.cart as read at step 1
    charge,      \* createOrder: the charge returned by the gateway
    order,       \* createOrder: id of the order it created, 0 if none
    cleared,     \* createOrder: its deleteManyCartItems has committed
    result,      \* outcome once pc = "done"
    accounts,    \* User table: accounts[u] = [password, resetToken, resetTokenExpiry, permissions]
    now,         \* Date.now(), in milliseconds
    mails,       \* mails the transport has sent: set of [to, resetToken]
    spent,       \* reset tokens with which a resetPassword has succeeded
    nextTok,     \* next value drawn from the random source (reset tokens, salts)
    acctOps,     \* number of account requests started so far
    apc,         \* position of each account request
    areq,        \* the account request a worker serves
    aloc,        \* its local values
    ares         \* its outcome once apc = "done"

cartVars == <<cartItems, orders, charges, nextId, nextCharge, opsStarted, added,
              pc, req, existing, cart, charge, order, cleared, result>>

acctVars == <<accounts, now, mails, spent, nextTok, acctOps, apc, areq, aloc, ares>>

vars == <<cartVars, acctVars>>

dbVars == <<cartItems, orders, charges, nextId, nextCharge>>
locVars == <<existing, cart, charge, order, cleared>>

(* ---- helpers ---- *)

\* rows of a table in id order, the order in which the database returns them
RECURSIVE ById(_)
ById(S) ==
    IF S = {} THEN <<>>
    ELSE LET m == CHOOSE x \in S : \A y \in S : x.id <= y.id
         IN <<m>> \o ById(S \ {m})

\* ctx.db.query.cartItems({where: {user: {id}, item: {id}}})
QueryCartItems(u, i) == ById({l \in cartItems : l.user = u /\ l.item = i})

\* const [ existingCartItem ] = ...
FirstOf(s) == IF Len(s) = 0 THEN NoLine ELSE s[1]

\* user.cart { id quantity item { price ... } }
UserCart(u) ==
    LET rows == ById({l \in cartItems : l.user = u})
    IN [k \in 1..Len(rows) |->
          [id |-> rows[k].id, quantity |-> rows[k].quantity,
           item |-> rows[k].item, price |-> Price[rows[k].item]]]

\* user.cart.reduce((tally, cartItem) => tally + cartItem.quantity * cartItem.item.price, 0)
RECURSIVE Reduce(_, _)
Reduce(c, tally) ==
    IF Len(c) = 0 THEN tally
    ELSE Reduce(Tail(c), tally + Head(c).quantity * Head(c).price)

\* variant: the tally adds the price of each line once
AmountPerLine(c) == Reduce([k \in 1..Len(c) |-> [c[k] EXCEPT !.quantity = 1]], 0)

Amount(c) == Reduce(c, 0)

\* user.cart.map(cartItem => ({...cartItem.item, quantity, user})), id deleted
OrderItems(c) ==
    [k \in 1..Len(c) |->
        [title |-> c[k].item, price |-> c[k].price, quantity |-> c[k].quantity]]

\* user.cart.map(cartItem => cartItem.id)
CartItemIds(c) == {c[k].id : k \in 1..Len(c)}

\* quantity of a CartItem created without one (datamodel default)
DefaultQuantity == 1

(* ---- accounts ---- *)

Emails == Users \cup {"stranger"}
Passwords == {"pw1", "pw2"}
PermissionSets == {{"USER"}, {"USER", "ADMIN"}, {"USER", "PERMISSIONUPDATE"}}

\* Date.now() + 3600000
ResetTokenLifetime == 3600000
\* Date.now() - 3600000
ResetTokenWindow == 3600000
\* the clock advances in half hours
TickMs == ResetTokenLifetime \div 2

\* resetToken: null, resetTokenExpiry: null
NullToken == 0
NullExpiry == 0

\* bcrypt.hash(password, 10): a digest of the password and a fresh salt
Hash(pw, salt) == [plain |-> pw, salt |-> salt]

NoAReq == [op |-> "none", email |-> NoUser, token |-> NullToken, password |-> "none",
           confirm |-> "none", actor |-> NoUser, target |-> NoUser, permissions |-> {}]
NoALoc == [token |-> NullToken, user |-> NoUser, permissions |-> {}, mail |-> "none",
           cookie |-> NoUser, late |-> FALSE]

\* u1 administers the shop, u2 is a customer as signUp creates one
InitAccounts ==
    [u \in Users |->
        [password |-> Hash("pw0", 0), resetToken |-> NullToken,
         resetTokenExpiry |-> NullExpiry,
         permissions |-> IF u = "u1" THEN {"USER", "ADMIN"} ELSE {"USER"}]]

AcctInit ==
    /\ accounts = InitAccounts
    /\ now = 0
    /\ mails = {}
    /\ spent = {}
    /\ nextTok = 1
    /\ acctOps = 0
    /\ apc = [p \in Procs |-> "idle"]
    /\ areq = [p \in Procs |-> NoAReq]
    /\ aloc = [p \in Procs |-> NoALoc]
    /\ ares = [p \in Procs |-> "none"]

Init ==
    /\ AcctInit
    /\ cartItems = {}
    /\ orders = {}
    /\ charges = {}
    /\ nextId = 1
    /\ nextCharge = 1
    /\ opsStarted = 0
    /\ added = [u \in Users |-> [i \in Items |-> 0]]
    /\ pc = [p \in Procs |-> "idle"]
    /\ req = [p \in Procs |-> NoReq]
    /\ existing = [p \in Procs |-> NoLine]
    /\ cart = [p \in Procs |-> <<>>]
    /\ charge = [p \in Procs |-> NoCharge]
    /\ order = [p \in Procs |-> 0]
    /\ cleared = [p \in Procs |-> FALSE]
    /\ result = [p \in Procs |-> "none"]

Finish(p, r) ==
    /\ pc' = [pc EXCEPT ![p] = "done"]
    /\ result' = [result EXCEPT ![p] = r]

Begin(p, r) ==
    /\ pc[p] = "idle"
    /\ opsStarted < MaxOps
    /\ opsStarted' = opsStarted + 1
    /\ req' = [req EXCEPT ![p] = r]

(* ---- addToCart ---- *)

\* variant: the cartItems query filters by item only
AddToCartQueryAnyUser(p) ==
    \E u \in Users \cup {NoUser}, i \in Items :
        /\ Begin(p, [op |-> "addToCart", user |-> u, item |-> i, line |-> 0])
        /\ IF u = NoUser
           THEN /\ Finish(p, "MustSignIn")
                /\ UNCHANGED existing
           ELSE /\ existing' = [existing EXCEPT ![p] =
                                   FirstOf(ById({l \in cartItems : l.item = i}))]
                /\ pc' = [pc EXCEPT ![p] = "a_write"]
                /\ UNCHANGED result
        /\ UNCHANGED <<dbVars, added, cart, charge, order, cleared>>
        /\ UNCHANGED acctVars

\* steps 1-2: sign-in check, then the cartItems query
AddToCartQuery(p) ==
    \E u \in Users \cup {NoUser}, i \in Items :
        /\ Begin(p, [op |-> "addToCart", user |-> u, item |-> i, line |-> 0])
        /\ IF u = NoUser
           THEN /\ Finish(p, "MustSignIn")
                /\ UNCHANGED existing
           ELSE /\ existing' = [existing EXCEPT ![p] = FirstOf(QueryCartItems(u, i))]
                /\ pc' = [pc EXCEPT ![p] = "a_write"]
                /\ UNCHANGED result
        /\ UNCHANGED <<dbVars, added, cart, charge, order, cleared>>
        /\ UNCHANGED acctVars

\* variant: an existing line is written back with the quantity that was read
AddToCartWriteSameQuantity(p) ==
    /\ pc[p] = "a_write"
    /\ IF existing[p] # NoLine
       THEN IF \E l \in cartItems : l.id = existing[p].id
            THEN /\ cartItems' =
                       {IF l.id = existing[p].id
                        THEN [l EXCEPT !.quantity = existing[p].quantity]
                        ELSE l : l \in cartItems}
                 /\ added' = [added EXCEPT ![req[p].user][req[p].item] = @ + 1]
                 /\ Finish(p, "ok")
                 /\ UNCHANGED nextId
            ELSE /\ Finish(p, "RecordGone")
                 /\ UNCHANGED <<cartItems, added, nextId>>
       ELSE /\ cartItems' = cartItems \cup
                   {[id |-> nextId, user |-> req[p].user, item |-> req[p].item,
                     quantity |-> DefaultQuantity]}
            /\ nextId' = nextId + 1
            /\ added' = [added EXCEPT ![req[p].user][req[p].item] = @ + 1]
            /\ Finish(p, "ok")
    /\ UNCHANGED <<orders, charges, nextCharge, opsStarted, req, locVars>>
    /\ UNCHANGED acctVars

\* steps 3-4: updateCartItem with the quantity read in step 2, or createCartItem
AddToCartWrite(p) ==
    /\ pc[p] = "a_write"
    /\ IF existing[p] # NoLine
       THEN IF \E l \in cartItems : l.id = existing[p].id
            THEN /\ cartItems' =
                       {IF l.id = existing[p].id
                        THEN [l EXCEPT !.quantity = existing[p].quantity + 1]
                        ELSE l : l \in cartItems}
                 /\ added' = [added EXCEPT ![req[p].user][req[p].item] = @ + 1]
                 /\ Finish(p, "ok")
                 /\ UNCHANGED nextId
            ELSE /\ Finish(p, "RecordGone")
                 /\ UNCHANGED <<cartItems, added, nextId>>
       ELSE /\ cartItems' = cartItems \cup
                   {[id |-> nextId, user |-> req[p].user, item |-> req[p].item,
                     quantity |-> DefaultQuantity]}
            /\ nextId' = nextId + 1
            /\ added' = [added EXCEPT ![req[p].user][req[p].item] = @ + 1]
            /\ Finish(p, "ok")
    /\ UNCHANGED <<orders, charges, nextCharge, opsStarted, req, locVars>>
    /\ UNCHANGED acctVars

(* ---- removeFromCart ---- *)

\* variant: the ownership check is missing
RemoveFromCartQueryNoOwnerCheck(p) ==
    \E u \in Users \cup {NoUser}, id \in 1..MaxOps :
        /\ Begin(p, [op |-> "removeFromCart", user |-> u, item |-> NoItem, line |-> id])
        /\ IF ~ \E l \in cartItems : l.id = id
           THEN Finish(p, "NotFound")
           ELSE /\ pc' = [pc EXCEPT ![p] = "r_delete"]
                /\ UNCHANGED result
        /\ UNCHANGED <<dbVars, added, locVars>>
        /\ UNCHANGED acctVars

\* steps 1-2: cartItem query, existence check, ownership check
RemoveFromCartQuery(p) ==
    \E u \in Users \cup {NoUser}, id \in 1..MaxOps :
        /\ Begin(p, [op |-> "removeFromCart", user |-> u, item |-> NoItem, line |-> id])
        /\ IF ~ \E l \in cartItems : l.id = id
           THEN Finish(p, "NotFound")
           ELSE IF (CHOOSE l \in cartItems : l.id = id).user # u
                THEN Finish(p, "Forbidden")
                ELSE /\ pc' = [pc EXCEPT ![p] = "r_delete"]
                     /\ UNCHANGED result
        /\ UNCHANGED <<dbVars, added, locVars>>
        /\ UNCHANGED acctVars

\* step 3: deleteCartItem({where: {id}})
RemoveFromCartDelete(p) ==
    /\ pc[p] = "r_delete"
    /\ IF \E l \in cartItems : l.id = req[p].line
       THEN /\ cartItems' = {l \in cartItems : l.id # req[p].line}
            /\ Finish(p, "ok")
       ELSE /\ Finish(p, "RecordGone")
            /\ UNCHANGED cartItems
    /\ UNCHANGED <<orders, charges, nextId, nextCharge, opsStarted, added, req, locVars>>
    /\ UNCHANGED acctVars

(* ---- createOrder ---- *)

\* step 1: sign-in check, then the user query that reads the cart
CreateOrderQuery(p) ==
    \E u \in Users \cup {NoUser} :
        /\ Begin(p, [op |-> "createOrder", user |-> u, item |-> NoItem, line |-> 0])
        /\ IF u = NoUser
           THEN /\ Finish(p, "Unauthenticated")
                /\ UNCHANGED cart
           ELSE /\ cart' = [cart EXCEPT ![p] = UserCart(u)]
                /\ pc' = [pc EXCEPT ![p] = "co_charge"]
                /\ UNCHANGED result
        /\ UNCHANGED <<dbVars, added, existing, charge, order, cleared>>
        /\ UNCHANGED acctVars

\* variant: a rejected charge is followed by the cart clean-up
CreateOrderChargeClearsOnFailure(p) ==
    /\ pc[p] = "co_charge"
    /\ \/ /\ charge' = [charge EXCEPT ![p] = [id |-> nextCharge, amount |-> Amount(cart[p])]]
          /\ charges' = charges \cup
                 {[id |-> nextCharge, amount |-> Amount(cart[p]), lines |-> CartItemIds(cart[p])]}
          /\ nextCharge' = nextCharge + 1
          /\ pc' = [pc EXCEPT ![p] = "co_order"]
          /\ UNCHANGED <<result, cartItems>>
       \/ /\ Finish(p, "PaymentError")
          /\ cartItems' = {l \in cartItems : l.id \notin CartItemIds(cart[p])}
          /\ UNCHANGED <<charge, charges, nextCharge>>
    /\ UNCHANGED <<orders, nextId, opsStarted, added, req, existing, cart, order, cleared>>
    /\ UNCHANGED acctVars

\* variant: the gateway call may also stay unanswered, with nothing cutting it off
GatewayAnswersOrSilence == {"receipt", "error", "silence"}

\* how a call of the payment gateway adapter ends: with a receipt, or with an
\* error (a decline, or the timeout that bounds the call)
GatewayAnswers == {"receipt", "error"}

\* steps 2-3: the total, then stripe.charges.create; the promise resolves with
\* the charge, rejects, or (were the call unbounded) never settles
CreateOrderCharge(p) ==
    /\ pc[p] = "co_charge"
    /\ \E a \in GatewayAnswers :
          \/ /\ a = "receipt"
             /\ charge' = [charge EXCEPT ![p] = [id |-> nextCharge, amount |-> Amount(cart[p])]]
             /\ charges' = charges \cup
                    {[id |-> nextCharge, amount |-> Amount(cart[p]), lines |-> CartItemIds(cart[p])]}
             /\ nextCharge' = nextCharge + 1
             /\ pc' = [pc EXCEPT ![p] = "co_order"]
             /\ UNCHANGED result
          \/ /\ a = "error"
             /\ Finish(p, "PaymentError")
             /\ UNCHANGED <<charge, charges, nextCharge>>
          \/ /\ a = "silence"
             /\ pc' = [pc EXCEPT ![p] = "co_await"]
             /\ UNCHANGED <<result, charge, charges, nextCharge>>
    /\ UNCHANGED <<cartItems, orders, nextId, opsStarted, added, req, existing, cart, order, cleared>>
    /\ UNCHANGED acctVars

\* steps 4-5: the order items, then the createOrder mutation, which commits or rejects
CreateOrderPersist(p) ==
    /\ pc[p] = "co_order"
    /\ \/ /\ orders' = orders \cup
                 {[id |-> nextId, user |-> req[p].user, total |-> charge[p].amount,
                   charge |-> charge[p].id, items |-> OrderItems(cart[p])]}
          /\ order' = [order EXCEPT ![p] = nextId]
          /\ nextId' = nextId + 1
          /\ pc' = [pc EXCEPT ![p] = "co_clear"]
          /\ UNCHANGED result
       \/ /\ Finish(p, "PersistenceError")
          /\ UNCHANGED <<orders, order, nextId>>
    /\ UNCHANGED <<cartItems, charges, nextCharge, opsStarted, added, req, existing, cart, charge, cleared>>
    /\ UNCHANGED acctVars

\* variant: the clean-up deletes every line the user has at that moment
CreateOrderClearWholeCart(p) ==
    /\ pc[p] = "co_clear"
    /\ \/ /\ cartItems' = {l \in cartItems : l.user # req[p].user}
          /\ cleared' = [cleared EXCEPT ![p] = TRUE]
          /\ Finish(p, "ok")
       \/ /\ Finish(p, "PersistenceError")
          /\ UNCHANGED <<cartItems, cleared>>
    /\ UNCHANGED <<orders, charges, nextId, nextCharge, opsStarted, added, req, existing, cart, charge, order>>
    /\ UNCHANGED acctVars

\* steps 6-7: deleteManyCartItems({where: {id_in}}), which commits or rejects
CreateOrderClear(p) ==
    /\ pc[p] = "co_clear"
    /\ \/ /\ cartItems' = {l \in cartItems : l.id \notin CartItemIds(cart[p])}
          /\ cleared' = [cleared EXCEPT ![p] = TRUE]
          /\ Finish(p, "ok")
       \/ /\ Finish(p, "PersistenceError")
          /\ UNCHANGED <<cartItems, cleared>>
    /\ UNCHANGED <<orders, charges, nextId, nextCharge, opsStarted, added, req, existing, cart, charge, order>>
    /\ UNCHANGED acctVars

\* the response has been sent; the worker is free for the next request
Return(p) ==
    /\ pc[p] = "done"
    /\ pc' = [pc EXCEPT ![p] = "idle"]
    /\ req' = [req EXCEPT ![p] = NoReq]
    /\ existing' = [existing EXCEPT ![p] = NoLine]
    /\ cart' = [cart EXCEPT ![p] = <<>>]
    /\ charge' = [charge EXCEPT ![p] = NoCharge]
    /\ order' = [order EXCEPT ![p] = 0]
    /\ cleared' = [cleared EXCEPT ![p] = FALSE]
    /\ result' = [result EXCEPT ![p] = "none"]
    /\ UNCHANGED <<dbVars, opsStarted, added>>
    /\ UNCHANGED acctVars

Next ==
    \E p \in Procs :
        \/ AddToCartQuery(p)
        \/ AddToCartWrite(p)
        \/ RemoveFromCartQuery(p)
        \/ RemoveFromCartDelete(p)
        \/ CreateOrderQuery(p)
        \/ CreateOrderCharge(p)
        \/ CreateOrderPersist(p)
        \/ CreateOrderClear(p)
        \/ Return(p)

Spec == Init /\ [][Next]_vars

(* ---- account requests ---- *)

AFinish(p, r) ==
    /\ apc' = [apc EXCEPT ![p] = "done"]
    /\ ares' = [ares EXCEPT ![p] = r]

ABegin(p, r) ==
    /\ apc[p] = "idle"
    /\ acctOps < MaxOps
    /\ acctOps' = acctOps + 1
    /\ areq' = [areq EXCEPT ![p] = r]

\* const user = ctx.db.query.user(...): the query is not awaited, so user is
\* the pending promise whatever the table holds
UserNotAwaited(e) == "promise"

\* !user
Falsy(v) == v = "null"

\* ctx.db.query.users({where: {resetToken, resetTokenExpiry_gte}})
QueryUsersByToken(t, from) ==
    {u \in Users : accounts[u].resetToken = t /\ accounts[u].resetToken # NullToken
                      /\ accounts[u].resetTokenExpiry >= from}

(* ---- requestReset ---- *)

\* step 1, and the random bytes of step 2
RequestResetStart(p) ==
    \E e \in Emails :
        /\ ABegin(p, [NoAReq EXCEPT !.op = "requestReset", !.email = e])
        /\ IF Falsy(UserNotAwaited(e))
           THEN /\ AFinish(p, "NoSuchUser")
                /\ UNCHANGED <<aloc, nextTok>>
           ELSE /\ aloc' = [aloc EXCEPT ![p].token = nextTok]
                /\ nextTok' = nextTok + 1
                /\ apc' = [apc EXCEPT ![p] = "rr_update"]
                /\ UNCHANGED ares
        /\ UNCHANGED <<accounts, now, mails, spent, cartVars>>

\* step 2: updateUser({where: {email}, data: {resetToken, resetTokenExpiry}})
RequestResetUpdate(p) ==
    /\ apc[p] = "rr_update"
    /\ IF areq[p].email \in Users
       THEN /\ accounts' = [accounts EXCEPT
                   ![areq[p].email].resetToken = aloc[p].token,
                   ![areq[p].email].resetTokenExpiry = now + ResetTokenLifetime]
            /\ apc' = [apc EXCEPT ![p] = "rr_mail"]
            /\ UNCHANGED ares
       ELSE /\ AFinish(p, "RecordGone")
            /\ UNCHANGED accounts
    /\ UNCHANGED <<now, mails, spent, nextTok, acctOps, areq, aloc, cartVars>>

\* step 3: await transport.sendMail(...), which resolves or rejects
RequestResetMail(p) ==
    /\ apc[p] = "rr_mail"
    /\ \/ /\ mails' = mails \cup {[to |-> areq[p].email, resetToken |-> aloc[p].token]}
          /\ aloc' = [aloc EXCEPT ![p].mail = "sent"]
          /\ AFinish(p, "ok")
       \/ /\ aloc' = [aloc EXCEPT ![p].mail = "failed"]
          /\ AFinish(p, "MailError")
          /\ UNCHANGED mails
    /\ UNCHANGED <<accounts, now, spent, nextTok, acctOps, areq, cartVars>>

(* ---- resetPassword ---- *)

\* variant: the confirmation is not compared
ResetPasswordStartNoConfirmCheck(p) ==
    \E t \in 1..MaxOps, pw \in Passwords, cf \in Passwords :
        /\ ABegin(p, [NoAReq EXCEPT !.op = "resetPassword", !.token = t,
                                     !.password = pw, !.confirm = cf])
        /\ LET found == QueryUsersByToken(t, now - ResetTokenWindow)
           IN IF found = {}
              THEN /\ AFinish(p, "TokenInvalid")
                   /\ aloc' = [aloc EXCEPT ![p].late = t \in spent]
              ELSE /\ aloc' = [aloc EXCEPT ![p].user = CHOOSE u \in found : TRUE,
                                             ![p].late = t \in spent]
                   /\ apc' = [apc EXCEPT ![p] = "rp_update"]
                   /\ UNCHANGED ares
        /\ UNCHANGED <<accounts, now, mails, spent, nextTok, cartVars>>

\* steps 1-3: the confirmation check, then the users query by token and expiry
ResetPasswordStart(p) ==
    \E t \in 1..MaxOps, pw \in Passwords, cf \in Passwords :
        /\ ABegin(p, [NoAReq EXCEPT !.op = "resetPassword", !.token = t,
                                     !.password = pw, !.confirm = cf])
        /\ IF pw # cf
           THEN /\ AFinish(p, "PasswordMismatch")
                /\ UNCHANGED aloc
           ELSE LET found == QueryUsersByToken(t, now - ResetTokenWindow)
                IN IF found = {}
                   THEN /\ AFinish(p, "TokenInvalid")
                        /\ aloc' = [aloc EXCEPT ![p].late = t \in spent]
                   ELSE /\ aloc' = [aloc EXCEPT ![p].user = CHOOSE u \in found : TRUE,
                                                  ![p].late = t \in spent]
                        /\ apc' = [apc EXCEPT ![p] = "rp_update"]
                        /\ UNCHANGED ares
        /\ UNCHANGED <<accounts, now, mails, spent, nextTok, cartVars>>

\* variant: the new password is saved and the reset fields are left in place
ResetPasswordUpdateKeepsToken(p) ==
    /\ apc[p] = "rp_update"
    /\ accounts' = [accounts EXCEPT
           ![aloc[p].user].password = Hash(areq[p].password, nextTok)]
    /\ nextTok' = nextTok + 1
    /\ spent' = spent \cup {areq[p].token}
    /\ aloc' = [aloc EXCEPT ![p].cookie = aloc[p].user]
    /\ AFinish(p, "ok")
    /\ UNCHANGED <<now, mails, acctOps, areq, cartVars>>

\* steps 4-8: the hash, updateUser({where: {email: user.email}, data: {password,
\* resetToken: null, resetTokenExpiry: null}}), then the session cookie
ResetPasswordUpdate(p) ==
    /\ apc[p] = "rp_update"
    /\ accounts' = [accounts EXCEPT
           ![aloc[p].user].password = Hash(areq[p].password, nextTok),
           ![aloc[p].user].resetToken = NullToken,
           ![aloc[p].user].resetTokenExpiry = NullExpiry]
    /\ nextTok' = nextTok + 1
    /\ spent' = spent \cup {areq[p].token}
    /\ aloc' = [aloc EXCEPT ![p].cookie = aloc[p].user]
    /\ AFinish(p, "ok")
    /\ UNCHANGED <<now, mails, acctOps, areq, cartVars>>

\* the response has been sent; the worker is free for the next request
AReturn(p) ==
    /\ apc[p] = "done"
    /\ apc' = [apc EXCEPT ![p] = "idle"]
    /\ areq' = [areq EXCEPT ![p] = NoAReq]
    /\ aloc' = [aloc EXCEPT ![p] = NoALoc]
    /\ ares' = [ares EXCEPT ![p] = "none"]
    /\ UNCHANGED <<accounts, now, mails, spent, nextTok, acctOps, cartVars>>

\* time passes
Tick ==
    /\ now < MaxTicks * TickMs
    /\ now' = now + TickMs
    /\ UNCHANGED <<accounts, mails, spent, nextTok, acctOps, apc, areq, aloc, ares, cartVars>>

ResetNext ==
    \/ Tick
    \/ \E p \in Procs :
          \/ RequestResetStart(p)
          \/ RequestResetUpdate(p)
          \/ RequestResetMail(p)
          \/ ResetPasswordStart(p)
          \/ ResetPasswordUpdate(p)
          \/ AReturn(p)

ResetSpec == Init /\ [][ResetNext]_vars

(* ---- updatePermissions ---- *)

\* hasPermission(user, permissionsNeeded): passes iff the user holds one of them
HasPermission(held, needed) == held \cap needed # {}

\* variant: the permission check is not made
UpdatePermissionsQueryNoCheck(p) ==
    \E a \in Users \cup {NoUser}, t \in Users, ps \in PermissionSets :
        /\ ABegin(p, [NoAReq EXCEPT !.op = "updatePermissions", !.actor = a,
                                     !.target = t, !.permissions = ps])
        /\ IF a = NoUser
           THEN /\ AFinish(p, "MustSignIn")
                /\ UNCHANGED aloc
           ELSE /\ aloc' = [aloc EXCEPT ![p].user = a,
                                         ![p].permissions = accounts[a].permissions]
                /\ apc' = [apc EXCEPT ![p] = "up_update"]
                /\ UNCHANGED ares
        /\ UNCHANGED <<accounts, now, mails, spent, nextTok, cartVars>>

\* steps 1-3: sign-in check, the query of the current user, hasPermission
UpdatePermissionsQuery(p) ==
    \E a \in Users \cup {NoUser}, t \in Users, ps \in PermissionSets :
        /\ ABegin(p, [NoAReq EXCEPT !.op = "updatePermissions", !.actor = a,
                                     !.target = t, !.permissions = ps])
        /\ IF a = NoUser
           THEN /\ AFinish(p, "MustSignIn")
                /\ UNCHANGED aloc
           ELSE /\ aloc' = [aloc EXCEPT ![p].user = a,
                                         ![p].permissions = accounts[a].permissions]
                /\ IF HasPermission(accounts[a].permissions, {"ADMIN", "PERMISSIONUPDATE"})
                   THEN /\ apc' = [apc EXCEPT ![p] = "up_update"]
                        /\ UNCHANGED ares
                   ELSE AFinish(p, "Forbidden")
        /\ UNCHANGED <<accounts, now, mails, spent, nextTok, cartVars>>

\* step 4: updateUser({data: {permissions: {set}}, where: {id: args.userId}})
UpdatePermissionsWrite(p) ==
    /\ apc[p] = "up_update"
    /\ accounts' = [accounts EXCEPT ![areq[p].target].permissions = areq[p].permissions]
    /\ AFinish(p, "ok")
    /\ UNCHANGED <<now, mails, spent, nextTok, acctOps, areq, aloc, cartVars>>

PermNext ==
    \E p \in Procs :
        \/ UpdatePermissionsQuery(p)
        \/ UpdatePermissionsWrite(p)
        \/ AReturn(p)

PermSpec == Init /\ [][PermNext]_vars

\* every continuation of a settled promise is run by the event loop
LiveSpec ==
    /\ Spec
    /\ \A p \in Procs :
          /\ WF_vars(CreateOrderCharge(p))
          /\ WF_vars(CreateOrderPersist(p))
          /\ WF_vars(CreateOrderClear(p))

(* ---- requests that run one after another: addToCart only ---- *)

SeqNext ==
    \E p \in Procs :
        /\ \A q \in Procs \ {p} : pc[q] \in {"idle", "done"}
        /\ \/ AddToCartQuery(p)
           \/ AddToCartWrite(p)
           \/ Return(p)

SeqSpec == Init /\ [][SeqNext]_vars

(* ---- concurrent addToCart requests only ---- *)

AddNext ==
    \E p \in Procs :
        \/ AddToCartQuery(p)
        \/ AddToCartWrite(p)
        \/ Return(p)

AddSpec == Init /\ [][AddNext]_vars

(* ---- properties ---- *)

IsCheckout(p) == req[p].op = "createOrder" /\ req[p].user # NoUser
Terminated(p) == pc[p] = "done"
LinesOf(u, i) == {l \in cartItems : l.user = u /\ l.item = i}

\* sum of quantity * price over positions 1..n of a sequence of lines
RECURSIVE SumTo(_, _)
SumTo(s, n) == IF n = 0 THEN 0 ELSE SumTo(s, n - 1) + s[n].quantity * s[n].price

\* C1: of two checkouts of one user whose snapshots share a line, at most one
\* creates an Order, and the other one ends with ConcurrentCheckoutConflict
\* (or with an error of an earlier step), never with a second Order.
C1_AtMostOneOrder ==
    \A p, q \in Procs :
        (p # q /\ IsCheckout(p) /\ IsCheckout(q) /\ req[p].user = req[q].user
              /\ CartItemIds(cart[p]) \cap CartItemIds(cart[q]) # {})
        => /\ ~ (order[p] # 0 /\ order[q] # 0)
           /\ (Terminated(p) /\ Terminated(q) /\ order[p] # 0)
                 => result[q] \in {"ConcurrentCheckoutConflict", "PaymentError",
                                   "PersistenceError"}

\* C2: no cart line is billed twice: two different successful charges never
\* include the same CartLine id in their amounts.
C2_NoLineBilledTwice ==
    \A c1, c2 \in charges : c1.id # c2.id => c1.lines \cap c2.lines = {}

\* C3: Materialize is atomic: once a checkout of a non-empty snapshot has
\* terminated, its Order exists if and only if its deletion of the snapshotted
\* lines has committed.
C3_MaterializeAtomic ==
    \A p \in Procs :
        (IsCheckout(p) /\ Terminated(p) /\ cart[p] # <<>>)
        => ((\E o \in orders : o.id = order[p]) <=> cleared[p])

\* C4: no order/charge divergence: once a checkout of a non-empty snapshot has
\* terminated, a charge it made is the charge reference of exactly one Order,
\* and every Order's charge reference is a charge the gateway made.
C4_NoOrderChargeDivergence ==
    /\ \A p \in Procs :
          (IsCheckout(p) /\ Terminated(p) /\ cart[p] # <<>> /\ charge[p] # NoCharge)
          => Cardinality({o \in orders : o.charge = charge[p].id}) = 1
    /\ \A o \in orders : \E c \in charges : c.id = o.charge

\* a step of checkout p that does not get past the Charge step
PreChargeStep(p) ==
    /\ pc'[p] # pc[p]
    /\ req'[p].op = "createOrder"
    /\ pc[p] \in {"idle", "co_charge"}
    /\ pc'[p] \in {"co_charge", "done"}

\* C5: a checkout whose gateway call fails ends with an error, has created no
\* Order, and none of its steps has changed the CartItem or the Order table.
C5_GatewayFailureLeavesCart ==
    /\ [](\A p \in Procs :
            (IsCheckout(p) /\ Terminated(p) /\ result[p] = "PaymentError")
            => (order[p] = 0 /\ ~ cleared[p] /\ charge[p] = NoCharge))
    /\ [][\A p \in Procs :
            PreChargeStep(p) => (cartItems' = cartItems /\ orders' = orders)]_vars

C5_Witness ==
    \E p \in Procs :
        /\ IsCheckout(p) /\ Terminated(p) /\ result[p] = "PaymentError"
        /\ cart[p] # <<>>
        /\ \A k \in 1..Len(cart[p]) :
              \E l \in cartItems : l.id = cart[p][k].id /\ l.quantity = cart[p][k].quantity
        /\ orders = {}

\* C6: a checkout of a signed-in user whose cart snapshot is empty never gets
\* past the Snapshot step (no gateway call, no Order) and ends with EmptyCart.
C6_EmptyCartRejected ==
    \A p \in Procs :
        (IsCheckout(p) /\ pc[p] # "idle" /\ cart[p] = <<>>)
        => /\ pc[p] \notin {"co_order", "co_clear"}
           /\ charge[p] = NoCharge
           /\ order[p] = 0
           /\ Terminated(p) => result[p] = "EmptyCart"

\* C7: the total of an Order created from a non-empty snapshot is the sum of
\* quantity * price over the snapshotted lines and over the Order's own items.
C7_OrderTotal ==
    \A p \in Procs :
        (IsCheckout(p) /\ order[p] # 0 /\ cart[p] # <<>>)
        => \E o \in orders :
              /\ o.id = order[p]
              /\ o.total = SumTo(cart[p], Len(cart[p]))
              /\ o.total = SumTo(o.items, Len(o.items))
              /\ Len(o.items) = Len(cart[p])

C7_Witness ==
    \E p \in Procs :
        /\ IsCheckout(p) /\ order[p] # 0
        /\ \E o \in orders :
              /\ o.id = order[p]
              /\ \/ Len(o.items) >= 2
                 \/ \E k \in 1..Len(o.items) : o.items[k].quantity >= 2

\* the step in which checkout p returns its Order
SuccessStep(p) ==
    /\ req[p].op = "createOrder"
    /\ pc[p] = "co_clear"
    /\ pc'[p] = "done"
    /\ result'[p] = "ok"

\* C8: after a successful checkout none of the snapshotted line ids is in the
\* cart, and the clear removes the snapshotted ids and no other line.
C8_ClearExactlySnapshot ==
    /\ [](\A p \in Procs :
            (IsCheckout(p) /\ Terminated(p) /\ result[p] = "ok")
            => ~ \E l \in cartItems : l.id \in CartItemIds(cart[p]))
    /\ [][\A p \in Procs :
            SuccessStep(p)
            => /\ \A l \in cartItems : l.id \notin CartItemIds(cart[p]) => l \in cartItems'
               /\ cartItems' \subseteq cartItems]_vars

\* a line of the same user that was created after the snapshot and before the
\* Order, and is still in the cart after the checkout has returned its Order
C8_Witness ==
    \E p \in Procs :
        /\ IsCheckout(p) /\ Terminated(p) /\ result[p] = "ok"
        /\ cart[p] # <<>>
        /\ \E l \in cartItems :
              /\ l.user = req[p].user
              /\ l.id \notin CartItemIds(cart[p])
              /\ l.id < order[p]

\* C9: after n >= 1 addToCart calls of one signed-in user for one item, run
\* one after another from no line, there is exactly one line for the pair and
\* its quantity is n; each of the calls returns a row.
C9_SequentialAdds ==
    /\ \A u \in Users, i \in Items :
          added[u][i] >= 1
          => \E l \in LinesOf(u, i) : LinesOf(u, i) = {l} /\ l.quantity = added[u][i]
    /\ \A p \in Procs :
          (Terminated(p) /\ req[p].op = "addToCart" /\ req[p].user # NoUser)
          => result[p] = "ok"

C9_Witness ==
    \E u \in Users, i \in Items :
        /\ added[u][i] >= 3
        /\ \E l \in LinesOf(u, i) : l.quantity = added[u][i]
        /\ \A p \in Procs : pc[p] \in {"idle", "done"}

\* C10: under every interleaving of concurrent addToCart calls there is at
\* most one line per (user, item) pair, and the quantity of the pair's line is
\* the number of calls that have returned.
C10_AtomicAdd ==
    \A u \in Users, i \in Items :
        /\ Cardinality(LinesOf(u, i)) <= 1
        /\ \A l \in LinesOf(u, i) : l.quantity = added[u][i]

\* the worker whose request takes the step, and the session it runs under
Steps(p) == pc'[p] # pc[p]
Session(p) == IF pc[p] = "idle" THEN req'[p].user ELSE req[p].user
LineById(id) == {l \in cartItems : l.id = id}

\* C11: removeFromCart for a line id that does not exist fails with NotFound,
\* for an existing line of another user fails with Forbidden, and in both
\* cases the CartItem table is left as it was.
C11_RemoveRejected ==
    [][\A p \in Procs :
         (pc[p] = "idle" /\ req'[p].op = "removeFromCart")
         => /\ LineById(req'[p].line) = {}
                 => (pc'[p] = "done" /\ result'[p] = "NotFound" /\ cartItems' = cartItems)
            /\ (\E l \in LineById(req'[p].line) : l.user # req'[p].user)
                 => (pc'[p] = "done" /\ result'[p] = "Forbidden" /\ cartItems' = cartItems)]_vars

C11_Witness ==
    \E p, q \in Procs :
        /\ req[p].op = "removeFromCart" /\ Terminated(p) /\ result[p] = "Forbidden"
        /\ req[p].user \in Users
        /\ \E l \in LineById(req[p].line) : l.user \in Users \ {req[p].user}
        /\ req[q].op = "removeFromCart" /\ Terminated(q) /\ result[q] = "NotFound"
        /\ req[q].user \in Users

\* C15: no unit of quantity is lost to a checkout: every line the clear of a
\* successful checkout deletes has the quantity the checkout snapshotted (and
\* copied into its Order), so no increment made after Snapshot is deleted.
C15_NoUnitLost ==
    [][\A p \in Procs :
         SuccessStep(p)
         => \A l \in cartItems \ cartItems' :
               \E k \in 1..Len(cart[p]) :
                   cart[p][k].id = l.id /\ cart[p][k].quantity = l.quantity]_vars

C20_CartIsolation ==
    [][\A p \in Procs :
         Steps(p)
         => \A l \in cartItems \cup cartItems' :
               l.user # Session(p) => (l \in cartItems /\ l \in cartItems')]_vars

\* each kind of cart request has succeeded for one user while another user's
\* line is still in the cart, untouched
C20_Witness ==
    \E p \in Procs :
        /\ req[p].op \in {"removeFromCart", "createOrder"}
        /\ Terminated(p) /\ result[p] = "ok"
        /\ req[p].op = "createOrder" => cart[p] # <<>>
        /\ \E l \in cartItems :
              l.user \in Users \ {req[p].user} /\ l.quantity = DefaultQuantity

\* the worker whose account request takes the step
ASteps(p) == apc'[p] # apc[p]
Starts(p, op) == apc[p] = "idle" /\ areq'[p].op = op

\* C12: resetPassword with a password that differs from its confirmation fails
\* at once: the step changes no account, uses no query result and sets no
\* session cookie, whatever reset token is presented.
C12_MismatchRejected ==
    [][\A p \in Procs :
         (Starts(p, "resetPassword") /\ areq'[p].password # areq'[p].confirm)
         => /\ apc'[p] = "done"
            /\ ares'[p] = "PasswordMismatch"
            /\ accounts' = accounts
            /\ aloc'[p].user = NoUser
            /\ aloc'[p].cookie = NoUser]_vars

\* a mismatched request that presented a token the query would have accepted
C12_Witness ==
    \E p \in Procs :
        /\ areq[p].op = "resetPassword" /\ apc[p] = "done"
        /\ ares[p] = "PasswordMismatch"
        /\ QueryUsersByToken(areq[p].token, now - ResetTokenWindow) # {}

\* C13: resetPassword with a reset token whose stored expiry is earlier than
\* the current time fails with the token error and changes no account.
C13_ExpiredTokenRejected ==
    [][\A p \in Procs :
         (/\ Starts(p, "resetPassword")
          /\ areq'[p].password = areq'[p].confirm
          /\ \E u \in Users :
                accounts[u].resetToken = areq'[p].token /\ accounts[u].resetTokenExpiry < now)
         => /\ apc'[p] = "done"
            /\ ares'[p] = "TokenInvalid"
            /\ accounts' = accounts]_vars

\* the permissions of some user differ before and after the step
PermissionsChange(u) == accounts'[u].permissions # accounts[u].permissions

\* C14: updatePermissions by an actor who is not signed in or holds neither
\* ADMIN nor PERMISSIONUPDATE fails and changes no account; permissions change
\* only in the write of an updatePermissions request whose actor held one of
\* the two when it was checked.
C14_PermissionsGuarded ==
    /\ [][\A p \in Procs :
            (/\ Starts(p, "updatePermissions")
             /\ \/ areq'[p].actor = NoUser
                \/ accounts[areq'[p].actor].permissions \cap {"ADMIN", "PERMISSIONUPDATE"} = {})
            => /\ apc'[p] = "done"
               /\ ares'[p] \in {"MustSignIn", "Forbidden"}
               /\ accounts' = accounts]_vars
    /\ [][\A u \in Users :
            PermissionsChange(u)
            => \E p \in Procs :
                  /\ ASteps(p)
                  /\ areq[p].op = "updatePermissions"
                  /\ areq[p].target = u
                  /\ aloc[p].user \in Users
                  /\ aloc[p].permissions \cap {"ADMIN", "PERMISSIONUPDATE"} # {}]_vars

\* a signed-in actor without either permission was refused a change that
\* would have altered the target's permissions
C14_Witness ==
    \E p \in Procs :
        /\ areq[p].op = "updatePermissions" /\ apc[p] = "done"
        /\ ares[p] = "Forbidden"
        /\ areq[p].actor \in Users
        /\ accounts[areq[p].target].permissions # areq[p].permissions

\* C16: a requestReset whose mail could not be sent still returns its success
\* result, and the token and expiry it wrote are still stored.
C16_MailFailureNonFatal ==
    \A p \in Procs :
        (areq[p].op = "requestReset" /\ apc[p] = "done" /\ aloc[p].mail = "failed")
        => /\ ares[p] = "ok"
           /\ accounts[areq[p].email].resetToken # NullToken

\* C18: requestReset for an email of no user fails with the 'No such user'
\* error in its first step, with no token generated, no write and no mail.
C18_UnknownEmailRejected ==
    [][\A p \in Procs :
         (Starts(p, "requestReset") /\ areq'[p].email \notin Users)
         => /\ apc'[p] = "done"
            /\ ares'[p] = "NoSuchUser"
            /\ aloc'[p].token = NullToken
            /\ accounts' = accounts
            /\ mails' = mails]_vars

\* the step in which resetPassword p saves the new password
ResetSucceeds(p) ==
    /\ areq[p].op = "resetPassword"
    /\ apc[p] = "rp_update"
    /\ apc'[p] = "done"
    /\ ares'[p] = "ok"

\* C19: a reset token is single-use: the successful resetPassword nulls the
\* user's resetToken and resetTokenExpiry, no account holds a spent token
\* afterwards, and a resetPassword that presents a spent token fails and
\* changes no account.
C19_TokenSingleUse ==
    /\ [](\A t \in spent : \A u \in Users : accounts[u].resetToken # t)
    /\ [][\A p \in Procs :
            ResetSucceeds(p)
            => /\ accounts'[aloc[p].user].resetToken = NullToken
               /\ accounts'[aloc[p].user].resetTokenExpiry = NullExpiry]_vars
    /\ [][\A p \in Procs :
            (Starts(p, "resetPassword") /\ areq'[p].token \in spent)
            => /\ apc'[p] = "done"
               /\ ares'[p] \in {"TokenInvalid", "PasswordMismatch"}
               /\ accounts' = accounts]_vars

\* a well-formed resetPassword presented a token that had been spent, within
\* the hour of its issue, and was refused
C19_Witness ==
    \E p \in Procs :
        /\ areq[p].op = "resetPassword" /\ apc[p] = "done"
        /\ areq[p].password = areq[p].confirm
        /\ aloc[p].late
        /\ ares[p] = "TokenInvalid"
        /\ now < ResetTokenLifetime

====
